---------------------------- MODULE Spec2Model ----------------------------
(***************************************************************************)
(* A model of add-to-steam.py: the script that appends one shortcut record *)
(* to Steam's binary shortcuts.vdf and downloads SteamGridDB artwork.      *)
(*                                                                         *)
(* Byte strings are sequences of naturals 0..255.  A 32-bit unsigned value *)
(* is a record [hi, lo] of two 16-bit halves (value = hi * 65536 + lo),    *)
(* because the appid reaches 2^32 - 1.                                     *)
(***************************************************************************)
EXTENDS Integers, Sequences, FiniteSets, TLC

(***************************************************************************)
(* Bounds of the model.                                                    *)
(***************************************************************************)
\* number of invocations of the script in one behaviour
MaxRuns == 3
\* length of the texts handed to the pure functions
MaxTextLen == 2

(***************************************************************************)
(* Text literals of the script, as UTF-8 bytes.                            *)
(***************************************************************************)
\* "Minecraft Splitscreen"
APPNAME ==
  <<77,105,110,101,99,114,97,102,116,32,83,112,108,105,116,115,99,114,101,101,110>>
\* "shortcuts"
S_shortcuts ==
  <<115,104,111,114,116,99,117,116,115>>
\* "appid"
S_appid ==
  <<97,112,112,105,100>>
\* "appname"
S_appname ==
  <<97,112,112,110,97,109,101>>
\* "exe"
S_exe ==
  <<101,120,101>>
\* "StartDir"
S_StartDir ==
  <<83,116,97,114,116,68,105,114>>
\* "icon"
S_icon ==
  <<105,99,111,110>>
\* "/grid/"
S_grid_slash ==
  <<47,103,114,105,100,47>>
\* "_icon.ico"
S_icon_ico ==
  <<95,105,99,111,110,46,105,99,111>>
\* "/.local/share/PollyMC/minecraftSplitscreen.sh"
S_pollymc_script ==
  <<47,46,108,111,99,97,108,47,115,104,97,114,101,47,80,111,108,108,121,77,67,47,109,105,110,101,99,114,97,102,116,83,112,108,105,116,115,99,114,101,101,110,46,115,104>>
\* "/.local/share/PollyMC"
S_pollymc_dir ==
  <<47,46,108,111,99,97,108,47,115,104,97,114,101,47,80,111,108,108,121,77,67>>
\* "/.local/share/PrismLauncher/minecraftSplitscreen.sh"
S_prism_script ==
  <<47,46,108,111,99,97,108,47,115,104,97,114,101,47,80,114,105,115,109,76,97,117,110,99,104,101,114,47,109,105,110,101,99,114,97,102,116,83,112,108,105,116,115,99,114,101,101,110,46,115,104>>
\* "/.local/share/PrismLauncher"
S_prism_dir ==
  <<47,46,108,111,99,97,108,47,115,104,97,114,101,47,80,114,105,115,109,76,97,117,110,99,104,101,114>>
\* "minecraftSplitscreen.sh"
S_script_name ==
  <<109,105,110,101,99,114,97,102,116,83,112,108,105,116,115,99,114,101,101,110,46,115,104>>
\* "/.steam/steam/userdata"
S_userdata ==
  <<47,46,115,116,101,97,109,47,115,116,101,97,109,47,117,115,101,114,100,97,116,97>>
\* "config"
S_config ==
  <<99,111,110,102,105,103>>
\* "shortcuts.vdf"
S_shortcuts_vdf ==
  <<115,104,111,114,116,99,117,116,115,46,118,100,102>>
\* "grid"
S_grid ==
  <<103,114,105,100>>
\* ".png"
S_png ==
  <<46,112,110,103>>
\* ".ico"
S_ico ==
  <<46,105,99,111>>
\* "p"
S_p ==
  <<112>>
\* "_hero"
S_hero ==
  <<95,104,101,114,111>>
\* "_logo"
S_logo ==
  <<95,108,111,103,111>>
\* "_icon"
S_icon_suffix ==
  <<95,105,99,111,110>>
\* "https://cdn2.steamgriddb.com/grid/a73027901f88055aaa0fd1a9e25d36c7.png"
URL_p ==
  <<104,116,116,112,115,58,47,47,99,100,110,50,46,115,116,101,97,109,103,114,105,100,100,98,46,99,111,109,47,103,114,105,100,47,97,55,51,48,50,55,57,48,49,102,56,56,48,53,53,97,97,97,48,102,100,49,97,57,101,50,53,100,51,54,99,55,46,112,110,103>>
\* "https://cdn2.steamgriddb.com/grid/e353b610e9ce20f963b4cca5da565605.jpg"
URL_main ==
  <<104,116,116,112,115,58,47,47,99,100,110,50,46,115,116,101,97,109,103,114,105,100,100,98,46,99,111,109,47,103,114,105,100,47,101,51,53,51,98,54,49,48,101,57,99,101,50,48,102,57,54,51,98,52,99,99,97,53,100,97,53,54,53,54,48,53,46,106,112,103>>
\* "https://cdn2.steamgriddb.com/hero/ecd812da02543c0269cfc2c56ab3c3c0.png"
URL_hero ==
  <<104,116,116,112,115,58,47,47,99,100,110,50,46,115,116,101,97,109,103,114,105,100,100,98,46,99,111,109,47,104,101,114,111,47,101,99,100,56,49,50,100,97,48,50,53,52,51,99,48,50,54,57,99,102,99,50,99,53,54,97,98,51,99,51,99,48,46,112,110,103>>
\* "https://cdn2.steamgriddb.com/logo/90915208c601cc8c86ad01250ee90c12.png"
URL_logo ==
  <<104,116,116,112,115,58,47,47,99,100,110,50,46,115,116,101,97,109,103,114,105,100,100,98,46,99,111,109,47,108,111,103,111,47,57,48,57,49,53,50,48,56,99,54,48,49,99,99,56,99,56,54,97,100,48,49,50,53,48,101,101,57,48,99,49,50,46,112,110,103>>
\* "https://cdn2.steamgriddb.com/icon/add7a048049671970976f3e18f21ade3.ico"
URL_icon ==
  <<104,116,116,112,115,58,47,47,99,100,110,50,46,115,116,101,97,109,103,114,105,100,100,98,46,99,111,109,47,105,99,111,110,47,97,100,100,55,97,48,52,56,48,52,57,54,55,49,57,55,48,57,55,54,102,51,101,49,56,102,50,49,97,100,101,51,46,105,99,111>>
\* "/home/deck"
HOME_deck ==
  <<47,104,111,109,101,47,100,101,99,107>>
\* "/home/eak"
HOME_eak ==
  <<47,104,111,109,101,47,101,97,107>>
\* "/opt/mcss"
SCRIPT_DIR ==
  <<47,111,112,116,47,109,99,115,115>>
\* "7"
UID_7 ==
  <<55>>
\* "anonymous"
DIR_anonymous ==
  <<97,110,111,110,121,109,111,117,115>>

(***************************************************************************)
(* Bytes and byte strings.                                                 *)
(***************************************************************************)
x00 == 0
x01 == 1
x02 == 2
x08 == 8

\* b'\x08\x08': the two bytes that close the container
Terminator == <<x08, x08>>

\* b'\x00shortcuts\x00\x08\x08': the empty VDF structure
EmptyVdf == <<x00>> \o S_shortcuts \o <<x00, x08, x08>>

\* A weaker test that looks at the final byte only.
endswith_lastByteOnly(b, suffix) ==
  /\ Len(b) >= 1
  /\ b[Len(b)] = suffix[Len(suffix)]

\* bytes.endswith(suffix)
endswith(b, suffix) ==
  /\ Len(b) >= Len(suffix)
  /\ SubSeq(b, Len(b) - Len(suffix) + 1, Len(b)) = suffix

\* os.path.join(a, b) for a relative b and a without a trailing slash
join(a, b) == a \o <<47>> \o b

\* str.isdigit() on the ASCII names used here: non-empty, decimal digits only
isdigit(s) == Len(s) > 0 /\ \A i \in 1..Len(s) : s[i] \in 48..57

\* str(n).encode() of a non-negative integer
RECURSIVE str(_)
str(n) == IF n < 10 THEN <<48 + n>> ELSE str(n \div 10) \o <<48 + (n % 10)>>

\* int(digits) of a byte string of decimal digits
RECURSIVE int(_)
int(ds) ==
  IF ds = <<>> THEN 0
  ELSE 10 * int(SubSeq(ds, 1, Len(ds) - 1)) + (ds[Len(ds)] - 48)

(***************************************************************************)
(* 32-bit unsigned arithmetic on [hi, lo] halves.                          *)
(***************************************************************************)
Word(hi, lo) == [hi |-> hi, lo |-> lo]

RECURSIVE BitXor(_, _, _)
BitXor(a, b, n) ==
  IF n = 0 THEN 0
  ELSE (((a % 2) + (b % 2)) % 2) + 2 * BitXor(a \div 2, b \div 2, n - 1)

RECURSIVE BitOr(_, _, _)
BitOr(a, b, n) ==
  IF n = 0 THEN 0
  ELSE (IF a % 2 = 1 \/ b % 2 = 1 THEN 1 ELSE 0) + 2 * BitOr(a \div 2, b \div 2, n - 1)

RECURSIVE BitAnd(_, _, _)
BitAnd(a, b, n) ==
  IF n = 0 THEN 0
  ELSE (IF a % 2 = 1 /\ b % 2 = 1 THEN 1 ELSE 0) + 2 * BitAnd(a \div 2, b \div 2, n - 1)

\* the xor of two bytes, tabulated, and of two 16-bit halves
xor_table == [a \in 0..255 |-> [b \in 0..255 |-> BitXor(a, b, 8)]]
Xor16(a, b) ==
  xor_table[a \div 256][b \div 256] * 256 + xor_table[a % 256][b % 256]

WXor(a, b) == Word(Xor16(a.hi, b.hi), Xor16(a.lo, b.lo))
WOr(a, b) == Word(BitOr(a.hi, b.hi, 16), BitOr(a.lo, b.lo, 16))
WAnd(a, b) == Word(BitAnd(a.hi, b.hi, 16), BitAnd(a.lo, b.lo, 16))

\* the 32-bit unsigned values
U32 == [hi : 0..65535, lo : 0..65535]

\* a >> 1 and a >> 8
WShr1(a) == Word(a.hi \div 2, (a.lo \div 2) + (a.hi % 2) * 32768)
WShr8(a) == Word(a.hi \div 256, (a.lo \div 256) + (a.hi % 256) * 256)

\* 0xFFFFFFFF and 0x80000000
MASK32 == Word(65535, 65535)
BIT31 == Word(32768, 0)

(***************************************************************************)
(* zlib.crc32: the reflected CRC-32 with polynomial 0xEDB88320, initial     *)
(* value and final xor 0xFFFFFFFF, computed through the byte table.        *)
(***************************************************************************)
CrcPoly == Word(60856, 33568)

RECURSIVE crc_round(_, _)
crc_round(c, n) ==
  IF n = 0 THEN c
  ELSE crc_round(IF c.lo % 2 = 1 THEN WXor(WShr1(c), CrcPoly) ELSE WShr1(c), n - 1)

crc_table == [b \in 0..255 |-> crc_round(Word(0, b), 8)]

\* one byte: c = crc_table[(c ^ b) & 0xFF] ^ (c >> 8)
crc_step(c, b) == WXor(crc_table[xor_table[c.lo % 256][b]], WShr8(c))

\* the bytes at positions i..j in order, the range split in halves to keep
\* the evaluation shallow
RECURSIVE crc_update(_, _, _, _)
crc_update(c, bytes, i, j) ==
  IF i > j THEN c
  ELSE IF i = j THEN crc_step(c, bytes[i])
  ELSE LET m == (i + j) \div 2
           left == crc_update(c, bytes, i, m)
       IN  IF left \in U32 THEN crc_update(left, bytes, m + 1, j) ELSE left

crc32(bytes) == WXor(crc_update(MASK32, bytes, 1, Len(bytes)), MASK32)

\* struct.pack('<I', w)
pack_le_u32(w) == <<w.lo % 256, w.lo \div 256, w.hi % 256, w.hi \div 256>>

\* str(w).encode() of a 32-bit value: long division by ten
RECURSIVE str_u32(_)
str_u32(w) ==
  LET cur == (w.hi % 10) * 65536 + w.lo
      q   == Word(w.hi \div 10, cur \div 10)
      d   == <<48 + (cur % 10)>>
  IN  IF q.hi = 0 /\ q.lo = 0 THEN d ELSE str_u32(q) \o d

(***************************************************************************)
(* The identifier and the record.                                          *)
(***************************************************************************)
\* the plain checksum, without bit 31 forced
computeAppId_noHighBit(appname, exe) == WAnd(crc32(appname \o exe), MASK32)

\* appid = 0x80000000 | zlib.crc32((APPNAME + EXE).encode("utf-8")) & 0xFFFFFFFF
computeAppId(appname, exe) == WOr(BIT31, WAnd(crc32(appname \o exe), MASK32))

\* make_entry with the closing x08 of the entry left out
make_entry_noEnd(index, appid, appname, exe, startdir, config_dir) ==
     <<x00>> \o str(index) \o <<x00>>
  \o <<x02>> \o S_appid \o <<x00>> \o pack_le_u32(appid)
  \o <<x01>> \o S_appname \o <<x00>> \o appname \o <<x00>>
  \o <<x01>> \o S_exe \o <<x00>> \o exe \o <<x00>>
  \o <<x01>> \o S_StartDir \o <<x00>> \o startdir \o <<x00>>
  \o <<x01>> \o S_icon \o <<x00>> \o config_dir \o S_grid_slash \o str_u32(appid)
       \o S_icon_ico \o <<x00>>

\* make_entry(index, appid, appname, exe, startdir); config_dir is the
\* script's global
make_entry(index, appid, appname, exe, startdir, config_dir) ==
     <<x00>> \o str(index) \o <<x00>>
  \o <<x02>> \o S_appid \o <<x00>> \o pack_le_u32(appid)
  \o <<x01>> \o S_appname \o <<x00>> \o appname \o <<x00>>
  \o <<x01>> \o S_exe \o <<x00>> \o exe \o <<x00>>
  \o <<x01>> \o S_StartDir \o <<x00>> \o startdir \o <<x00>>
  \o <<x01>> \o S_icon \o <<x00>> \o config_dir \o S_grid_slash \o str_u32(appid)
       \o S_icon_ico \o <<x00>>
  \o <<x08>>

(***************************************************************************)
(* The container editor.                                                   *)
(***************************************************************************)
\* the first position >= pos holding byte b, or Len(data) + 1
NextByte(data, pos, b) ==
  LET hits == {i \in pos..Len(data) : data[i] = b}
  IN  IF hits = {} THEN Len(data) + 1
      ELSE CHOOSE i \in hits : \A j \in hits : i <= j

\* the first position >= pos that holds no decimal digit, or Len(data) + 1
DigitsEnd(data, pos) ==
  LET stops == {i \in pos..Len(data) : data[i] \notin 48..57}
  IN  IF stops = {} THEN Len(data) + 1
      ELSE CHOOSE i \in stops : \A j \in stops : i <= j

\* re.findall(rb'\x00(\d+)\x00', data): the groups of the non-overlapping
\* matches, leftmost first; a search resumes where the last match ended
RECURSIVE findall(_, _, _)
findall(data, pos, matches) ==
  LET z == NextByte(data, pos, x00)
      e == DigitsEnd(data, z + 1)
  IN  IF z > Len(data) THEN matches
      ELSE IF e > z + 1 /\ e <= Len(data) /\ data[e] = x00
           THEN findall(data, e + 1, Append(matches, SubSeq(data, z + 1, e - 1)))
           ELSE findall(data, z + 1, matches)

\* get_latest_index
get_latest_index(data) ==
  LET matches == findall(data, 1, <<>>)
  IN  IF matches # <<>> THEN int(matches[Len(matches)]) ELSE -1

\* the splice with only one byte cut from the end of the container
insertEntry_cutOne(data, entry) ==
  SubSeq(data, 1, Len(data) - 1) \o entry \o Terminator

\* new_data = data[:-2] + entry + b'\x08\x08'
insertEntry(data, entry) ==
  SubSeq(data, 1, Len(data) - 2) \o entry \o Terminator

(***************************************************************************)
(* Launcher discovery.                                                     *)
(*                                                                         *)
(* A probe records what os.path.exists and os.access answer:               *)
(*   pollymc_app    the PollyMC AppImage exists and is executable          *)
(*   pollymc_script PollyMC/minecraftSplitscreen.sh exists                 *)
(*   prism_app      the PrismLauncher AppImage exists and is executable    *)
(*   prism_script   PrismLauncher/minecraftSplitscreen.sh exists           *)
(*   here_script    minecraftSplitscreen.sh exists beside add-to-steam.py  *)
(***************************************************************************)
Probe(pa, ps, ra, rs, hs) ==
  [pollymc_app |-> pa, pollymc_script |-> ps, prism_app |-> ra,
   prism_script |-> rs, here_script |-> hs]

Launcher(exe, startdir, name) ==
  [found |-> TRUE, exe |-> exe, startdir |-> startdir, name |-> name]

NoLauncher == [found |-> FALSE, exe |-> <<>>, startdir |-> <<>>, name |-> ""]

\* detect_launcher that falls back to the PrismLauncher paths when nothing
\* is installed
detect_launcher_alwaysFound(p, home, script_dir) ==
  IF p.pollymc_app /\ p.pollymc_script
  THEN Launcher(home \o S_pollymc_script, home \o S_pollymc_dir, "PollyMC")
  ELSE Launcher(home \o S_prism_script, home \o S_prism_dir, "PrismLauncher")

\* detect_launcher(); NoLauncher stands for its exit(1)
detect_launcher(p, home, script_dir) ==
  IF p.pollymc_app
  THEN IF p.pollymc_script
       THEN Launcher(home \o S_pollymc_script, home \o S_pollymc_dir, "PollyMC")
       ELSE Launcher(home \o S_prism_script, home \o S_pollymc_dir, "PollyMC")
  ELSE IF p.prism_app /\ p.prism_script
  THEN Launcher(home \o S_prism_script, home \o S_prism_dir, "PrismLauncher")
  ELSE IF p.prism_app /\ p.here_script
  THEN Launcher(join(script_dir, S_script_name), home \o S_prism_dir,
                "PrismLauncher")
  ELSE NoLauncher

\* next((d for d in os.listdir(userdata) if d.isdigit()), None); <<>> is None
RECURSIVE first_numeric(_)
first_numeric(listing) ==
  IF listing = <<>> THEN <<>>
  ELSE IF isdigit(Head(listing)) THEN Head(listing)
  ELSE first_numeric(Tail(listing))

\* os.path.expanduser("~/.steam/steam/userdata")
userdata_of(home) == home \o S_userdata

\* os.path.join(userdata, user_id, "config")
config_dir_of(home, uid) == join(join(userdata_of(home), uid), S_config)

\* os.path.join(userdata, user_id, "config", "grid")
grid_dir_of(home, uid) == join(config_dir_of(home, uid), S_grid)

(***************************************************************************)
(* Artwork.                                                                *)
(***************************************************************************)
\* the dict, in its insertion order
STEAMGRIDDB_IMAGES ==
  << [suffix |-> S_p,           url |-> URL_p],
     [suffix |-> <<>>,          url |-> URL_main],
     [suffix |-> S_hero,        url |-> URL_hero],
     [suffix |-> S_logo,        url |-> URL_logo],
     [suffix |-> S_icon_suffix, url |-> URL_icon] >>

Roles == 1..Len(STEAMGRIDDB_IMAGES)

\* os.path.join(grid_dir, f"{appid}{suffix}.png" if not url.endswith(".ico")
\*                         else f"{appid}{suffix}.ico")
art_path(gdir, id, img) ==
  join(gdir, str_u32(id) \o img.suffix
             \o (IF ~ endswith(img.url, S_ico) THEN S_png ELSE S_ico))

\* the bytes the image host serves for a role, and a file the user put there
Served(r) == <<137, r>>
UserArt == <<255>>

(***************************************************************************)
(* The environments a behaviour starts from.                               *)
(***************************************************************************)
Homes == {HOME_deck, HOME_eak}

Probes == {Probe(pa, ps, ra, rs, hs) : pa, ps, ra, rs, hs \in BOOLEAN}

PollyMCInstalled == Probe(TRUE, TRUE, FALSE, FALSE, FALSE)

Listings == { <<>>, <<DIR_anonymous>>, <<DIR_anonymous, UID_7>> }

\* how the download of each role ends: "ok"; "urlopen_error" (urlopen
\* raises, the target is never opened); "read_error" (the target is opened
\* for writing, then resp.read() or the write raises)
Outcomes == {"ok", "urlopen_error", "read_error"}

Nets == [Roles -> Outcomes]

AllOk == [r \in Roles |-> "ok"]

\* a shortcut entry some earlier tool wrote under index key i
ForeignEntry(i) ==
  make_entry(i, Word(43981, 48879), <<65>>, <<47, 101>>, <<47, 100>>, <<47, 99>>)

RECURSIVE Entries(_)
Entries(keys) ==
  IF keys = <<>> THEN <<>> ELSE ForeignEntry(Head(keys)) \o Entries(Tail(keys))

\* a well-formed container whose entries carry the given index keys, in order
Container(keys) ==
  <<x00>> \o S_shortcuts \o <<x00>> \o Entries(keys) \o Terminator

Vdf(present, bytes, keys) == [present |-> present, bytes |-> bytes, keys |-> keys]

InitialShortcuts ==
  { Vdf(FALSE, <<>>, <<>>),
    Vdf(TRUE, EmptyVdf, <<>>),
    Vdf(TRUE, <<>>, <<>>),
    Vdf(TRUE, SubSeq(EmptyVdf, 1, Len(EmptyVdf) - 1), <<>>),
    Vdf(TRUE, Container(<<0, 2, 5>>), <<0, 2, 5>>),
    Vdf(TRUE, Container(<<5, 0, 2>>), <<5, 0, 2>>) }

\* The environments: every launcher probe, listing and container with a
\* network that works, and every network with PollyMC installed, with and
\* without a hero image the user put in place.
ContainerEnvs ==
  { [home |-> h, probe |-> p, listing |-> l, net |-> AllOk, vdf |-> v,
     art |-> FALSE] :
      h \in Homes, p \in Probes, l \in Listings, v \in InitialShortcuts }

ArtworkEnvs ==
  { [home |-> HOME_deck, probe |-> PollyMCInstalled,
     listing |-> <<DIR_anonymous, UID_7>>, net |-> n,
     vdf |-> Vdf(FALSE, <<>>, <<>>), art |-> a] :
      n \in Nets, a \in BOOLEAN }

Environments == ContainerEnvs \cup ArtworkEnvs

\* the texts, index keys and containers handed to the pure functions
RECURSIVE TextsOfLen(_)
TextsOfLen(n) ==
  IF n = 0 THEN {<<>>}
  ELSE {Append(t, b) : t \in TextsOfLen(n - 1), b \in {47, 77}}

Texts == UNION {TextsOfLen(n) : n \in 0..MaxTextLen}

Permutations3(a, b, c) ==
  { <<a, b, c>>, <<a, c, b>>, <<b, a, c>>, <<b, c, a>>, <<c, a, b>>, <<c, b, a>> }

FnContainers ==
  {EmptyVdf} \cup {Container(p) : p \in Permutations3(0, 2, 5)}

FnIndexes == {0, 9, 10, 123}

(***************************************************************************)
(* State.                                                                  *)
(***************************************************************************)
VARIABLES
  HOME,            \* the user's home directory
  probe,           \* what the launcher paths answer (see Probe)
  listing,         \* os.listdir(userdata)
  net,             \* how the download of each role ends
  files,           \* the files on disk: path -> bytes
  dirs,            \* the directories the script may create
  pc,              \* the script's position
  EXE, STARTDIR, LAUNCHER_NAME,
  user_id, config_dir, shortcuts_file,
  data, index, appid, entry, new_data,
  grid_dir,
  k,               \* the position of the artwork loop in STEAMGRIDDB_IMAGES
  stdout,          \* what the script printed
  exit_code,       \* -1 while the script runs
  run,             \* the number of the invocation
  io,              \* the file and network operations of this invocation
  files0, dirs0,   \* files and dirs when this invocation started
  keys,            \* the index keys of the records in shortcuts.vdf
  fn               \* the pure functions applied to bounded arguments

env == <<HOME, probe, listing, net>>
launcher == <<EXE, STARTDIR, LAUNCHER_NAME>>
account == <<user_id, config_dir, shortcuts_file>>
record == <<index, appid, entry>>
history == <<run, files0, dirs0>>
vars == <<HOME, probe, listing, net, files, dirs, pc, EXE, STARTDIR,
          LAUNCHER_NAME, user_id, config_dir, shortcuts_file, data, index,
          appid, entry, new_data, grid_dir, k, stdout, exit_code, run, io,
          files0, dirs0, keys, fn>>

Msg(kind, arg) == [kind |-> kind, arg |-> arg]
Op(op, path) == [op |-> op, path |-> path]
NoFiles == [p \in {} |-> <<>>]
FnOff ==
  [step |-> "off", appname |-> <<>>, exe |-> <<>>, startdir |-> <<>>,
   config_dir |-> <<>>, index |-> 0, data |-> <<>>, appid |-> Word(0, 0),
   entry |-> <<>>, next |-> -1, out |-> <<>>]

\* the script's globals before anything is assigned
Unassigned ==
  /\ pc = "start"
  /\ EXE = <<>> /\ STARTDIR = <<>> /\ LAUNCHER_NAME = ""
  /\ user_id = <<>> /\ config_dir = <<>> /\ shortcuts_file = <<>>
  /\ data = <<>> /\ index = -1 /\ appid = Word(0, 0) /\ entry = <<>>
  /\ new_data = <<>> /\ grid_dir = <<>> /\ k = 0
  /\ stdout = <<>> /\ exit_code = -1 /\ io = <<>>

Init ==
  /\ \E e \in Environments :
       LET sf   == join(config_dir_of(e.home, UID_7), S_shortcuts_vdf)
           gdir == grid_dir_of(e.home, UID_7)
           l    == detect_launcher(e.probe, e.home, SCRIPT_DIR)
           hero == art_path(gdir, computeAppId(APPNAME, l.exe),
                            STEAMGRIDDB_IMAGES[3])
       IN  /\ HOME = e.home /\ probe = e.probe /\ listing = e.listing
           /\ net = e.net
           /\ keys = e.vdf.keys
           /\ files = (IF e.vdf.present THEN sf :> e.vdf.bytes ELSE NoFiles)
                      @@ (IF e.art THEN hero :> UserArt ELSE NoFiles)
           /\ dirs = IF e.art THEN {gdir} ELSE {}
  /\ files0 = files /\ dirs0 = dirs
  /\ run = 1
  /\ Unassigned
  /\ fn = FnOff

(***************************************************************************)
(* The script, top to bottom.                                              *)
(***************************************************************************)
\* EXE, STARTDIR, LAUNCHER_NAME = detect_launcher()
DetectLauncher ==
  /\ pc = "start"
  /\ LET l == detect_launcher(probe, HOME, SCRIPT_DIR)
     IN  IF l.found
         THEN /\ EXE' = l.exe /\ STARTDIR' = l.startdir /\ LAUNCHER_NAME' = l.name
              /\ stdout' = Append(stdout, Msg("detected", l.exe))
              /\ pc' = "locate"
              /\ exit_code' = exit_code
         ELSE /\ stdout' = Append(stdout, Msg("no_launcher", <<>>))
              /\ pc' = "exited"
              /\ exit_code' = 1
              /\ UNCHANGED launcher
  /\ UNCHANGED <<env, files, dirs, account, data, record, new_data, grid_dir,
                 k, io, history, keys, fn>>

\* the lookup of user_id, config_dir and shortcuts_file
LocateUser ==
  /\ pc = "locate"
  /\ LET uid == first_numeric(listing)
     IN  IF uid = <<>>
         THEN /\ stdout' = Append(stdout, Msg("no_user", <<>>))
              /\ pc' = "exited"
              /\ exit_code' = 1
              /\ UNCHANGED account
         ELSE /\ user_id' = uid
              /\ config_dir' = config_dir_of(HOME, uid)
              /\ shortcuts_file' = join(config_dir_of(HOME, uid), S_shortcuts_vdf)
              /\ pc' = "ensure"
              /\ UNCHANGED <<stdout, exit_code>>
  /\ UNCHANGED <<env, files, dirs, launcher, data, record, new_data, grid_dir,
                 k, io, history, keys, fn>>

\* if not os.path.exists(shortcuts_file): open(shortcuts_file, "wb")
EnsureOpen ==
  /\ pc = "ensure"
  /\ IF shortcuts_file \notin DOMAIN files
     THEN /\ files' = files @@ (shortcuts_file :> <<>>)
          /\ io' = Append(io, Op("open_wb", shortcuts_file))
          /\ pc' = "ensure_write"
     ELSE /\ pc' = "read"
          /\ UNCHANGED <<files, io>>
  /\ UNCHANGED <<env, dirs, launcher, account, data, record, new_data,
                 grid_dir, k, stdout, exit_code, history, keys, fn>>

\* f.write(b'\x00shortcuts\x00\x08\x08') and the close of the file
EnsureWrite ==
  /\ pc = "ensure_write"
  /\ files' = [files EXCEPT ![shortcuts_file] = EmptyVdf]
  /\ io' = Append(io, Op("write", shortcuts_file))
  /\ pc' = "read"
  /\ UNCHANGED <<env, dirs, launcher, account, data, record, new_data,
                 grid_dir, k, stdout, exit_code, history, keys, fn>>

\* data = f.read()
ReadShortcuts ==
  /\ pc = "read"
  /\ data' = files[shortcuts_file]
  /\ io' = Append(io, Op("read", shortcuts_file))
  /\ pc' = "compute"
  /\ UNCHANGED <<env, files, dirs, launcher, account, record, new_data,
                 grid_dir, k, stdout, exit_code, history, keys, fn>>

\* index, appid and entry
Compute ==
  /\ pc = "compute"
  /\ index' = get_latest_index(data) + 1
  /\ appid' = computeAppId(APPNAME, EXE)
  /\ entry' = make_entry(index', appid', APPNAME, EXE, STARTDIR, config_dir)
  /\ pc' = "splice"
  /\ UNCHANGED <<env, files, dirs, launcher, account, data, new_data,
                 grid_dir, k, stdout, exit_code, io, history, keys, fn>>

\* opening shortcuts.vdf for the splice without truncating it
SpliceOpen_noTruncate ==
  /\ pc = "splice"
  /\ IF endswith(data, Terminator)
     THEN /\ new_data' = insertEntry(data, entry)
          /\ io' = Append(io, Op("open_wb", shortcuts_file))
          /\ pc' = "splice_write"
          /\ UNCHANGED <<files, stdout, exit_code>>
     ELSE /\ stdout' = Append(stdout, Msg("not_recognized", <<>>))
          /\ pc' = "exited"
          /\ exit_code' = 1
          /\ UNCHANGED <<files, new_data, io>>
  /\ UNCHANGED <<env, dirs, launcher, account, data, record, grid_dir, k,
                 history, keys, fn>>

\* if data.endswith(b'\x08\x08'): new_data = ...; open(shortcuts_file, "wb"),
\* which truncates the file; else: print and exit(1)
SpliceOpen ==
  /\ pc = "splice"
  /\ IF endswith(data, Terminator)
     THEN /\ new_data' = insertEntry(data, entry)
          /\ files' = [files EXCEPT ![shortcuts_file] = <<>>]
          /\ io' = Append(io, Op("open_wb", shortcuts_file))
          /\ pc' = "splice_write"
          /\ UNCHANGED <<stdout, exit_code>>
     ELSE /\ stdout' = Append(stdout, Msg("not_recognized", <<>>))
          /\ pc' = "exited"
          /\ exit_code' = 1
          /\ UNCHANGED <<files, new_data, io>>
  /\ UNCHANGED <<env, dirs, launcher, account, data, record, grid_dir, k,
                 history, keys, fn>>

\* f.write(new_data), the close of the file and the print
SpliceWrite ==
  /\ pc = "splice_write"
  /\ files' = [files EXCEPT ![shortcuts_file] = new_data]
  /\ io' = Append(io, Op("write", shortcuts_file))
  /\ stdout' = Append(stdout, Msg("added", str(index)))
  /\ keys' = Append(keys, index)
  /\ pc' = "mkdir"
  /\ UNCHANGED <<env, dirs, launcher, account, data, record, new_data,
                 grid_dir, k, exit_code, history, fn>>

\* grid_dir and os.makedirs(grid_dir, exist_ok=True)
MakeGridDir ==
  /\ pc = "mkdir"
  /\ grid_dir' = join(join(join(userdata_of(HOME), user_id), S_config), S_grid)
  /\ dirs' = dirs \cup {grid_dir'}
  /\ io' = Append(io, Op("makedirs", grid_dir'))
  /\ k' = 1
  /\ pc' = "art"
  /\ UNCHANGED <<env, files, launcher, account, data, record, new_data,
                 stdout, exit_code, history, keys, fn>>

\* what one pass of the loop does to the files, the operations and the output
Fetch(path, img, outcome) ==
  IF outcome = "ok"
  THEN /\ files' = files @@ (path :> Served(k))
       /\ io' = io \o <<Op("urlopen", img.url), Op("open_wb", path),
                        Op("write", path)>>
       /\ stdout' = Append(stdout, Msg("saved", img.suffix))
  ELSE IF outcome = "read_error"
  THEN /\ files' = files @@ (path :> <<>>)
       /\ io' = io \o <<Op("urlopen", img.url), Op("open_wb", path)>>
       /\ stdout' = Append(stdout, Msg("failed", img.suffix))
  ELSE /\ files' = files
       /\ io' = Append(io, Op("urlopen", img.url))
       /\ stdout' = Append(stdout, Msg("failed", img.suffix))

\* the loop pass with the exception of a failed download not caught
Artwork_uncaught ==
  /\ pc = "art"
  /\ LET img  == STEAMGRIDDB_IMAGES[k]
         path == art_path(grid_dir, appid, img)
     IN  IF path \in DOMAIN files
         THEN /\ stdout' = Append(stdout, Msg("skip", img.suffix))
              /\ UNCHANGED <<files, io>>
              /\ k' = k + 1
              /\ pc' = IF k = Len(STEAMGRIDDB_IMAGES) THEN "finish" ELSE "art"
              /\ exit_code' = exit_code
         ELSE /\ Fetch(path, img, net[k])
              /\ k' = k + 1
              /\ pc' = IF net[k] # "ok" THEN "exited"
                       ELSE IF k = Len(STEAMGRIDDB_IMAGES) THEN "finish"
                       ELSE "art"
              /\ exit_code' = IF net[k] # "ok" THEN 1 ELSE exit_code
  /\ UNCHANGED <<env, dirs, launcher, account, data, record, new_data,
                 grid_dir, history, keys, fn>>

\* the loop pass without the os.path.exists test
Artwork_noSkip ==
  /\ pc = "art"
  /\ LET img  == STEAMGRIDDB_IMAGES[k]
         path == art_path(grid_dir, appid, img)
     IN  /\ IF net[k] = "urlopen_error"
            THEN Fetch(path, img, net[k])
            ELSE /\ files' = [p \in DOMAIN files \cup {path} |->
                                IF p = path
                                THEN (IF net[k] = "ok" THEN Served(k) ELSE <<>>)
                                ELSE files[p]]
                 /\ io' = io \o <<Op("urlopen", img.url), Op("open_wb", path)>>
                 /\ stdout' = Append(stdout,
                       Msg(IF net[k] = "ok" THEN "saved" ELSE "failed", img.suffix))
         /\ k' = k + 1
         /\ pc' = IF k = Len(STEAMGRIDDB_IMAGES) THEN "finish" ELSE "art"
  /\ UNCHANGED <<env, dirs, launcher, account, data, record, new_data,
                 grid_dir, exit_code, history, keys, fn>>

\* one pass of: for suffix, url in STEAMGRIDDB_IMAGES.items()
Artwork ==
  /\ pc = "art"
  /\ LET img  == STEAMGRIDDB_IMAGES[k]
         path == art_path(grid_dir, appid, img)
     IN  /\ IF path \in DOMAIN files
            THEN /\ stdout' = Append(stdout, Msg("skip", img.suffix))
                 /\ UNCHANGED <<files, io>>
            ELSE Fetch(path, img, net[k])
         /\ k' = k + 1
         /\ pc' = IF k = Len(STEAMGRIDDB_IMAGES) THEN "finish" ELSE "art"
  /\ UNCHANGED <<env, dirs, launcher, account, data, record, new_data,
                 grid_dir, exit_code, history, keys, fn>>

\* print("All done ...") and the end of the script
Finish ==
  /\ pc = "finish"
  /\ stdout' = Append(stdout, Msg("all_done", <<>>))
  /\ exit_code' = 0
  /\ pc' = "exited"
  /\ UNCHANGED <<env, files, dirs, launcher, account, data, record, new_data,
                 grid_dir, k, io, history, keys, fn>>

\* the user runs the script again
Rerun ==
  /\ pc = "exited"
  /\ run < MaxRuns
  /\ run' = run + 1
  /\ files0' = files /\ dirs0' = dirs
  /\ pc' = "start"
  /\ EXE' = <<>> /\ STARTDIR' = <<>> /\ LAUNCHER_NAME' = ""
  /\ user_id' = <<>> /\ config_dir' = <<>> /\ shortcuts_file' = <<>>
  /\ data' = <<>> /\ index' = -1 /\ appid' = Word(0, 0) /\ entry' = <<>>
  /\ new_data' = <<>> /\ grid_dir' = <<>> /\ k' = 0
  /\ stdout' = <<>> /\ exit_code' = -1 /\ io' = <<>>
  /\ UNCHANGED <<env, files, dirs, keys, fn>>

Next ==
  \/ DetectLauncher
  \/ LocateUser
  \/ EnsureOpen
  \/ EnsureWrite
  \/ ReadShortcuts
  \/ Compute
  \/ SpliceOpen
  \/ SpliceWrite
  \/ MakeGridDir
  \/ Artwork
  \/ Finish
  \/ Rerun

Spec == Init /\ [][Next]_vars

(***************************************************************************)
(* The pure functions, applied to bounded arguments.                       *)
(***************************************************************************)
FnInit ==
  /\ HOME = HOME_deck /\ probe = PollyMCInstalled /\ listing = <<>>
  /\ net = AllOk /\ files = NoFiles /\ dirs = {} /\ keys = <<>>
  /\ files0 = files /\ dirs0 = dirs
  /\ run = 1
  /\ Unassigned
  /\ \E name \in Texts, exe \in Texts, dir \in {<<>>, <<47, 100>>},
        i \in FnIndexes, d \in FnContainers :
       fn = [FnOff EXCEPT !.step = "args", !.appname = name, !.exe = exe,
                          !.startdir = dir, !.config_dir = <<47, 99>>,
                          !.index = i, !.data = d]

FnAppId ==
  /\ fn.step = "args"
  /\ fn' = [fn EXCEPT !.step = "appid",
                      !.appid = computeAppId(fn.appname, fn.exe)]
  /\ UNCHANGED <<env, files, dirs, pc, launcher, account, data, record,
                 new_data, grid_dir, k, stdout, exit_code, io, history, keys>>

FnEntry ==
  /\ fn.step = "appid"
  /\ fn' = [fn EXCEPT !.step = "entry",
                      !.entry = make_entry(fn.index, fn.appid, fn.appname,
                                           fn.exe, fn.startdir, fn.config_dir)]
  /\ UNCHANGED <<env, files, dirs, pc, launcher, account, data, record,
                 new_data, grid_dir, k, stdout, exit_code, io, history, keys>>

FnNextIndex ==
  /\ fn.step = "entry"
  /\ fn' = [fn EXCEPT !.step = "index",
                      !.next = get_latest_index(fn.data) + 1]
  /\ UNCHANGED <<env, files, dirs, pc, launcher, account, data, record,
                 new_data, grid_dir, k, stdout, exit_code, io, history, keys>>

FnInsert ==
  /\ fn.step = "index"
  /\ endswith(fn.data, Terminator)
  /\ fn' = [fn EXCEPT !.step = "done",
                      !.out = insertEntry(fn.data, fn.entry)]
  /\ UNCHANGED <<env, files, dirs, pc, launcher, account, data, record,
                 new_data, grid_dir, k, stdout, exit_code, io, history, keys>>

FnNext ==
  \/ FnAppId
  \/ FnEntry
  \/ FnNextIndex
  \/ FnInsert

SpecFn == FnInit /\ [][FnNext]_vars

(***************************************************************************)
(* What the properties below speak about.                                  *)
(***************************************************************************)
\* the operations of this invocation of one kind
OpsOf(kind) == {i \in 1..Len(io) : io[i].op = kind}

HasRead == OpsOf("read") # {}

\* the container was written back and the script announced it
Added == \E i \in 1..Len(stdout) : stdout[i].kind = "added"

\* the script has passed the write-back and has not failed since
AfterWriteBack ==
  pc \in {"mkdir", "art", "finish"} \/ (pc = "exited" /\ Added)

\* b does not end with the bytes 0x08 0x08
Malformed(b) == Len(b) < 2 \/ b[Len(b)] # 8 \/ b[Len(b) - 1] # 8

LastKind == IF stdout = <<>> THEN "" ELSE stdout[Len(stdout)].kind

IsArtReport(m) == m.kind \in {"skip", "saved", "failed"}
ArtReports == SelectSeq(stdout, IsArtReport)

\* the paths the script probes find nothing it accepts as a launcher
NothingToDiscover ==
  /\ ~ probe.pollymc_app
  /\ ~ (probe.prism_app /\ (probe.prism_script \/ probe.here_script))

NoNumericAccount == \A i \in 1..Len(listing) : ~ isdigit(listing[i])

Distinct(s) == \A i, j \in 1..Len(s) : i # j => s[i] # s[j]

RECURSIVE DecimalText(_)
DecimalText(n) ==
  IF n < 10 THEN <<48 + n>> ELSE DecimalText(n \div 10) \o <<48 + (n % 10)>>

TextField(key, value) == <<1>> \o key \o <<0>> \o value \o <<0>>

Contains(b, part) ==
  \E i \in 1..(Len(b) - Len(part) + 1) : SubSeq(b, i, i + Len(part) - 1) = part

(***************************************************************************)
(* C1. Splice preservation: once the insertion step has written the        *)
(* container back, the file is the bytes D that were read without their    *)
(* last two, followed by the entry E, followed by 0x08 0x08: the first     *)
(* len(D)-2 bytes are unchanged, E starts at offset len(D)-2 and the       *)
(* length is len(D)+len(E).                                                *)
(***************************************************************************)
C1_SplicePreservation ==
  pc = "mkdir" =>
    LET D == data
        E == entry
        W == files[shortcuts_file]
    IN  /\ ~ Malformed(D)
        /\ Len(W) = Len(D) + Len(E)
        /\ \A i \in 1..(Len(D) - 2) : W[i] = D[i]
        /\ \A j \in 1..Len(E) : W[Len(D) - 2 + j] = E[j]
        /\ W[Len(W) - 1] = 8 /\ W[Len(W)] = 8

C1_Witness ==
  /\ pc = "mkdir"
  /\ Len(data) > Len(EmptyVdf)
  /\ Len(entry) > 0
  /\ files[shortcuts_file] # data

(***************************************************************************)
(* C2. Rejection of malformed input: when the bytes read from the existing *)
(* file do not end with 0x08 0x08 the run ends with status 1, the file is  *)
(* never opened for writing, the files on disk are those the run started   *)
(* with, and no artwork is fetched.                                        *)
(***************************************************************************)
C2_MalformedRejected ==
  (HasRead /\ Malformed(data)) =>
    /\ pc \in {"compute", "splice", "exited"}
    /\ pc = "exited" => (exit_code = 1 /\ LastKind = "not_recognized")
    /\ files = files0 /\ dirs = dirs0
    /\ OpsOf("open_wb") = {} /\ OpsOf("write") = {} /\ OpsOf("urlopen") = {}

C2_Witness ==
  /\ pc = "exited"
  /\ HasRead
  /\ Malformed(data)
  /\ Len(data) > 0
  /\ files[shortcuts_file] = data

(***************************************************************************)
(* C3. Index monotonicity: for a container whose entries carry the index   *)
(* keys 0, 2 and 5 in any order, get_latest_index(data) + 1 is 6; for the  *)
(* freshly initialised container it is 0.                                  *)
(***************************************************************************)
C3_IndexMonotonicity ==
  fn.step \in {"index", "done"} =>
    /\ fn.data \in {Container(p) : p \in Permutations3(0, 2, 5)} => fn.next = 6
    /\ fn.data = EmptyVdf => fn.next = 0

(***************************************************************************)
(* C4. Index uniqueness over runs: when a run is about to append its       *)
(* record to a container whose records carry pairwise distinct index keys, *)
(* the index of the new record differs from every one of those keys.       *)
(***************************************************************************)
C4_IndexUnique ==
  (pc = "splice_write" /\ Distinct(keys)) =>
    \A i \in 1..Len(keys) : keys[i] # index

(***************************************************************************)
(* C5. High-bit invariant: the appid computed from any two texts, empty    *)
(* ones included, is the CRC-32 of their concatenation with bit 31 set: it *)
(* lies in [2^31, 2^32) and its low 31 bits are those of the checksum.     *)
(***************************************************************************)
C5_HighBit ==
  fn.step \in {"appid", "entry", "index", "done"} =>
    LET c == crc32(fn.appname \o fn.exe)
    IN  /\ fn.appid.hi \in 32768..65535
        /\ fn.appid.lo \in 0..65535
        /\ fn.appid.lo = c.lo
        /\ fn.appid.hi % 32768 = c.hi % 32768
        /\ fn.appid.hi = 32768 + (c.hi % 32768)

C5_Witness ==
  /\ fn.step = "appid"
  /\ fn.appname = <<>> /\ fn.exe = <<>>
  /\ fn.appid = Word(32768, 0)

(***************************************************************************)
(* C6. Fail-fast ordering: when no launcher is discovered or no numeric    *)
(* account directory is listed, the run ends with status 1 and has touched *)
(* nothing: no file was created, read or written, no directory was made    *)
(* and nothing was fetched.                                                *)
(***************************************************************************)
C6_FailFast ==
  /\ (NothingToDiscover \/ NoNumericAccount) =>
       /\ pc \in {"start", "locate", "exited"}
       /\ pc = "exited" => (exit_code = 1 /\ LastKind \in {"no_launcher", "no_user"})
       /\ files = files0 /\ dirs = dirs0 /\ io = <<>>
  /\ (pc = "exited" /\ LastKind \in {"no_launcher", "no_user"}) =>
       /\ exit_code = 1
       /\ files = files0 /\ dirs = dirs0 /\ io = <<>>

C6_Witness ==
  /\ pc = "exited"
  /\ LastKind = "no_user"
  /\ ~ NothingToDiscover
  /\ files # NoFiles

(***************************************************************************)
(* C7 as stated. Atomic whole-file write-back: the container is read once  *)
(* and, from the read on, the file on disk is at every moment either the   *)
(* complete old contents or the complete new contents.                     *)
(***************************************************************************)
C7_AtomicWriteBack ==
  /\ Cardinality(OpsOf("read")) <= 1
  /\ (HasRead /\ pc # "exited") =>
       \/ files[shortcuts_file] = data
       \/ files[shortcuts_file] = insertEntry(data, entry)

(***************************************************************************)
(* C7 as amended. The container is read once, changed by one append and    *)
(* written back by a whole-file overwrite in two steps: the file holds the *)
(* old contents until it is opened for writing, is empty between the open  *)
(* and the write, and holds the complete new contents after the write.     *)
(***************************************************************************)
C7_TruncateThenWrite ==
  /\ Cardinality(OpsOf("read")) <= 1
  /\ (HasRead /\ pc \in {"compute", "splice"}) => files[shortcuts_file] = data
  /\ pc = "splice_write" =>
       /\ files[shortcuts_file] = <<>>
       /\ data # <<>>
  /\ AfterWriteBack =>
       /\ files[shortcuts_file] = SubSeq(data, 1, Len(data) - 2) \o entry \o <<8, 8>>
       /\ Cardinality({i \in OpsOf("write") : io[i].path = shortcuts_file
                                               /\ \E j \in OpsOf("read") : j < i}) = 1

C7_Witness ==
  /\ pc = "splice_write"
  /\ files[shortcuts_file] = <<>>
  /\ Len(data) > Len(EmptyVdf)

(***************************************************************************)
(* C8. Record layout: make_entry returns 0x00, the decimal index, 0x00,    *)
(* then 0x02 'appid' 0x00 and the appid in four little-endian bytes, then  *)
(* the text fields appname, exe, StartDir and icon in this order, then one *)
(* 0x08; the record for index 0 inserted into the fresh container gives a  *)
(* file that starts with the header, contains 0x00 '0' 0x00 and ends with  *)
(* 0x08 0x08 0x08.                                                         *)
(***************************************************************************)
C8_RecordLayout ==
  /\ fn.step \in {"entry", "index", "done"} =>
       LET n  == Len(DecimalText(fn.index))
           le == SubSeq(fn.entry, n + 10, n + 13)
       IN  /\ fn.entry =
                   <<0>> \o DecimalText(fn.index) \o <<0>>
                \o <<2, 97, 112, 112, 105, 100, 0>> \o le
                \o TextField(<<97, 112, 112, 110, 97, 109, 101>>, fn.appname)
                \o TextField(<<101, 120, 101>>, fn.exe)
                \o TextField(<<83, 116, 97, 114, 116, 68, 105, 114>>, fn.startdir)
                \o TextField(<<105, 99, 111, 110>>,
                             fn.config_dir \o <<47, 103, 114, 105, 100, 47>>
                             \o str_u32(fn.appid)
                             \o <<95, 105, 99, 111, 110, 46, 105, 99, 111>>)
                \o <<8>>
           /\ le[1] + 256 * le[2] = fn.appid.lo
           /\ le[3] + 256 * le[4] = fn.appid.hi
           /\ \A i \in 1..4 : le[i] \in 0..255
  /\ (fn.step = "done" /\ fn.data = EmptyVdf /\ fn.index = 0) =>
       /\ SubSeq(fn.out, 1, 11) = <<0, 115, 104, 111, 114, 116, 99, 117, 116, 115, 0>>
       /\ Contains(fn.out, <<0, 48, 0>>)
       /\ SubSeq(fn.out, Len(fn.out) - 2, Len(fn.out)) = <<8, 8, 8>>

C8_Witness ==
  /\ fn.step = "done"
  /\ fn.data = EmptyVdf /\ fn.index = 0
  /\ fn.appname = <<77>> /\ fn.exe = <<47>>
  /\ Len(fn.out) = Len(EmptyVdf) + Len(fn.entry)

(***************************************************************************)
(* C9. Artwork failure isolation: after the write-back each of the five    *)
(* roles is processed exactly once and in order, skipped or fetched at     *)
(* most once; a failed download is reported and the loop goes on; the run  *)
(* ends with status 0 and the container on disk stays as written.          *)
(***************************************************************************)
C9_ArtworkIsolation ==
  /\ pc = "art" => (k \in Roles /\ Len(ArtReports) = k - 1)
  /\ (pc = "finish" \/ (pc = "exited" /\ Added)) =>
       Len(ArtReports) = Len(STEAMGRIDDB_IMAGES)
  /\ \A r \in 1..Len(ArtReports) :
       /\ ArtReports[r].arg = STEAMGRIDDB_IMAGES[r].suffix
       /\ ArtReports[r].kind # "skip" =>
            ArtReports[r].kind = (IF net[r] = "ok" THEN "saved" ELSE "failed")
  /\ \A r \in Roles :
       Cardinality({i \in OpsOf("urlopen") :
                      io[i].path = STEAMGRIDDB_IMAGES[r].url}) <= 1
  /\ (pc = "exited" /\ Added) => (exit_code = 0 /\ LastKind = "all_done")
  /\ (pc \in {"art", "finish"} \/ (pc = "exited" /\ Added)) =>
       files[shortcuts_file] = new_data

C9_Witness ==
  /\ pc = "exited" /\ exit_code = 0
  /\ net[1] = "urlopen_error" /\ net[3] = "read_error"
  /\ Len(ArtReports) = 5
  /\ ArtReports[1].kind = "failed"
  /\ ArtReports[2].kind = "saved"
  /\ ArtReports[3].kind = "failed"
  /\ ArtReports[5].kind = "saved"

(***************************************************************************)
(* C10. Idempotent artwork skip: a pass of the loop that finds a file at   *)
(* the role's target path fetches nothing, changes no file and reports the *)
(* role as skipped; no pass changes a file that existed before it.         *)
(***************************************************************************)
C10_SkipExisting ==
  [][ pc = "art" =>
        LET img  == STEAMGRIDDB_IMAGES[k]
            path == join(grid_dir, str_u32(appid) \o img.suffix
                                   \o (IF k = 5 THEN S_ico ELSE S_png))
        IN  /\ path \in DOMAIN files =>
                 /\ files' = files
                 /\ io' = io
                 /\ stdout' = Append(stdout, Msg("skip", img.suffix))
            /\ \A p \in DOMAIN files : files'[p] = files[p]
            /\ \A p \in (DOMAIN files') \ (DOMAIN files) : p = path ]_vars

C10_Witness ==
  /\ pc = "art" /\ k = 4
  /\ LastKind = "skip"
  /\ net[3] = "ok"
  /\ \E p \in DOMAIN files : files[p] = UserArt
  /\ OpsOf("urlopen") # {}

=============================================================================
